---- MODULE Spec2Model ----
(***************************************************************************)
(* Model of main.py: the command line, Artist.__init__ with its listing    *)
(* request, the pagination batch of the --all mode, the lyric fan-out, the *)
(* derived statistics, and main() building one or two Artist objects.      *)
(*                                                                         *)
(* The main thread is modelled by pc; the futures of the one live          *)
(* ThreadPoolExecutor by futs.  The two web services are the environment:  *)
(* every response is chosen when the request completes.                    *)
(***************************************************************************)
EXTENDS Integers, Sequences, FiniteSets, Bags, TLC

\* ---------------------------------------------------------------- bounds
\* Largest number of full pages a mocked total match count covers.
MaxPages == 2

\* ----------------------------------------------------- program constants
DefaultLimit == 25
MaxLimit == 100
PageSize == 100
PageDivisor == 100
OffsetStep == 100
ExitNotFound == 1
ExitNoData == 1
ExitUncaught == 1
ExitSuccess == 0
HttpOk == 200

\* ------------------------------------------------------------ input sets
\* Values of --limit tried on the command line.
LimitArgs == {1, 2, DefaultLimit, MaxLimit, MaxLimit + 1}

\* One command line: --all (no --limit, so its default), or a --limit value;
\* each with and without --compare.
Invocations ==
    {[all |-> TRUE, limit |-> DefaultLimit, compare |-> c] : c \in BOOLEAN}
    \cup {[all |-> FALSE, limit |-> n, compare |-> c] : n \in LimitArgs, c \in BOOLEAN}

\* Total match counts the listing backend reports: none, one, and for every
\* number of full pages the smallest and the largest total.
Totals ==
    {0, 1} \cup {PageDivisor * k + r : k \in 0..MaxPages, r \in {0, PageDivisor - 1}}

\* A recording is its title; FalsyRec is an entry filter(None, ...) drops.
FalsyRec == "<falsy>"
Titles == {"Bohemian Rhapsody", "Killer Queen"}

\* 'recordings' lists a mocked page carries (with repeats, with a falsy entry).
PageBodies ==
    { <<>>,
      <<"Bohemian Rhapsody">>,
      <<"Bohemian Rhapsody", "Bohemian Rhapsody">>,
      <<"Bohemian Rhapsody", "Killer Queen">>,
      <<FalsyRec, "Killer Queen">> }

\* Lyrics texts, one character class per element: a word, a space, a newline.
LyricsBodies ==
    { <<>>,
      <<"w", " ", "w", "\n", "w", " ", "w">> }

\* ------------------------------------------------------- HTTP responses
\* kind "timeout": requests raises Timeout.  kind "http": a status and a body;
\* json says whether json.loads accepts the body, key whether the body holds
\* the field the caller reads ('recordings', 'lyrics').
Response(kind, status, json, key, recs, text) ==
    [kind |-> kind, status |-> status, json |-> json, key |-> key,
     recs |-> recs, text |-> text]

TimeoutResponse == Response("timeout", 0, FALSE, FALSE, <<>>, <<>>)

PageResponses ==
    {TimeoutResponse,
     Response("http", 503, TRUE, FALSE, <<>>, <<>>),
     Response("http", 503, FALSE, FALSE, <<>>, <<>>)}
    \cup {Response("http", HttpOk, TRUE, TRUE, p, <<>>) : p \in PageBodies}

LyricResponses ==
    {TimeoutResponse,
     Response("http", 404, TRUE, FALSE, <<>>, <<>>),
     Response("http", HttpOk, FALSE, FALSE, <<>>, <<>>)}
    \cup {Response("http", HttpOk, TRUE, TRUE, <<>>, t) : t \in LyricsBodies}

\* The initial listing response: a JSON object with count and recordings, or
\* a body json.loads rejects.
NoData == [json |-> FALSE, count |-> 0, recs |-> <<>>]
InitialResponses ==
    {NoData} \cup {[json |-> TRUE, count |-> T, recs |-> p] : T \in Totals, p \in PageBodies}

\* ------------------------------------------------------ module-level code
\* limit (lines 43-48): 'all' with --all, else the --limit value capped at 100.
IntParam(n) == [tag |-> "int", n |-> n]
AllParam == [tag |-> "str", n |-> 0]

Limit(a) ==
    IF a.all THEN AllParam
    ELSE IntParam(IF a.limit <= MaxLimit THEN a.limit ELSE MaxLimit)

\* get_all_tracks (lines 41-45)
GetAllTracks_Stale(a) == TRUE
GetAllTracks(a) == a.all

\* Line 132: data.get('count') == 0
IsNotFound_StringZero(resp) == FALSE
IsNotFound(resp) == resp.count = 0

\* --------------------------------------------------- results of a worker
\* What a future holds once its call ended: an exception, None, a recordings
\* list, or a word count.
Result(kind, exc, recs, n) == [kind |-> kind, exc |-> exc, recs |-> recs, n |-> n]
NoResult == Result("unset", "", <<>>, 0)
Raised(e) == Result("exc", e, <<>>, 0)
ReturnedNone == Result("none", "", <<>>, 0)

\* str.replace('\n', ' ')
ReplaceNewlines(text) ==
    [i \in 1..Len(text) |-> IF text[i] = "\n" THEN " " ELSE text[i]]

\* str.split(' '): the pieces between single spaces, empty pieces kept.
RECURSIVE SplitOnSpace(_)
SplitOnSpace(text) ==
    IF \A i \in 1..Len(text) : text[i] # " "
    THEN <<text>>
    ELSE LET k == CHOOSE i \in 1..Len(text) :
                      text[i] = " " /\ \A j \in 1..(i - 1) : text[j] # " "
         IN <<SubSeq(text, 1, k - 1)>> \o SplitOnSpace(SubSeq(text, k + 1, Len(text)))

\* Artist._get_word_count_from_track (lines 66-77)
GetWordCountFromTrack(resp) ==
    IF resp.kind = "timeout" THEN Raised("Timeout")
    ELSE IF resp.status = HttpOk
         THEN IF ~resp.json THEN Raised("JSONDecodeError")
              ELSE IF ~resp.key THEN Raised("KeyError")
              ELSE Result("count", "", <<>>, Len(SplitOnSpace(ReplaceNewlines(resp.text))))
         ELSE ReturnedNone

\* Artist._get_recording_data (lines 98-110): no status check; a JSON body
\* without 'recordings' gives None.
GetRecordingData(resp) ==
    IF resp.kind = "timeout" THEN Raised("Timeout")
    ELSE IF ~resp.json THEN Raised("JSONDecodeError")
    ELSE IF ~resp.key THEN ReturnedNone
    ELSE Result("recs", "", resp.recs, 0)

\* Truthiness of a result, as filter(None, ...) sees it.
Truthy(r) ==
    \/ r.kind = "recs" /\ r.recs # <<>>
    \/ r.kind = "count" /\ r.n # 0

\* filter(None, recordings) on one page's list of recordings.
RECURSIVE FilterRecs(_)
FilterRecs(recs) ==
    IF recs = <<>> THEN <<>>
    ELSE (IF Head(recs) = FalsyRec THEN <<>> ELSE <<Head(recs)>>) \o FilterRecs(Tail(recs))

\* [track['title'] for track in recordings], then set(track_names)
Elems(s) == {s[i] : i \in 1..Len(s)}
TitleSet(recs) == Elems(recs)

\* ------------------------------------------------------------ statistics
RECURSIVE Sum(_)
Sum(s) == IF s = <<>> THEN 0 ELSE Head(s) + Sum(Tail(s))

SeqMax(s) == CHOOSE x \in Elems(s) : \A y \in Elems(s) : y <= x
SeqMin(s) == CHOOSE x \in Elems(s) : \A y \in Elems(s) : x <= y

\* round(sum / len, 2), in hundredths (no tie occurs below eight samples).
Average(s) == (200 * Sum(s) + Len(s)) \div (2 * Len(s))

\* statistics.variance: StatisticsError below two data points, else the
\* sample variance  (n * sum(x^2) - sum(x)^2) / (n * (n - 1)).
VarianceRaises(s) == Len(s) < 2
Variance(s) ==
    [num |-> Len(s) * Sum([i \in 1..Len(s) |-> s[i] * s[i]]) - Sum(s) * Sum(s),
     den |-> Len(s) * (Len(s) - 1)]
NoVariance == [num |-> 0, den |-> 0]

\* ----------------------------------------------------------------- state
VARIABLES
    args,        \* the parsed command line
    pc,          \* where the main thread is
    cur,         \* which Artist main() is constructing: 1 (artist), 2 (--compare)
    artist,      \* the two Artist objects and the attributes assigned so far
    data,        \* the parsed initial listing response of the current build
    batch,       \* which executor.map is live: "none", "pages", "lyrics"
    futs,        \* the futures of the live batch, in submission order
    cursor,      \* next future whose result the main thread consumes
    recordings,  \* list(filter(None, recordings)) built so far (line 149)
    served,      \* live batch: the response each unit's request received
    initParams,  \* per artist: params of the initial listing requests sent
    pageReqs,    \* per artist: bag of params of _get_recording_data requests
    lyricReqs,   \* per artist: bag of track titles whose lyrics were requested
    outcome,     \* "running", "ok", "notfound", "nodata", "exception"
    exc,         \* the uncaught exception, and where it was raised
    exitCode,    \* {} while the process runs, {code} once it exited
    printed      \* the result block printed: "none", "details", "difference"

vars == <<args, pc, cur, artist, data, batch, futs, cursor, recordings, served,
          initParams, pageReqs, lyricReqs, outcome, exc, exitCode, printed>>

ArtistIds == {1, 2}

NoArtist ==
    [state |-> "none", tracks |-> {}, values |-> <<>>, derived |-> {},
     average |-> 0, max |-> 0, min |-> 0, variance |-> NoVariance]

NoExc == [type |-> "", site |-> ""]

Future(offset, title) ==
    [offset |-> offset, title |-> title, state |-> "pending", result |-> NoResult]

Init ==
    /\ args \in Invocations
    /\ pc = "main"
    /\ cur = 1
    /\ artist = [a \in ArtistIds |-> NoArtist]
    /\ data = NoData
    /\ batch = "none"
    /\ futs = <<>>
    /\ cursor = 1
    /\ recordings = <<>>
    /\ served = <<>>
    /\ initParams = [a \in ArtistIds |-> <<>>]
    /\ pageReqs = [a \in ArtistIds |-> EmptyBag]
    /\ lyricReqs = [a \in ArtistIds |-> EmptyBag]
    /\ outcome = "running"
    /\ exc = NoExc
    /\ exitCode = {}
    /\ printed = "none"

\* An uncaught exception unwinds main(): traceback, exit status 1.
Crash(type, site) ==
    /\ pc' = "done"
    /\ outcome' = "exception"
    /\ exc' = [type |-> type, site |-> site]
    /\ exitCode' = {ExitUncaught}

\* sys.exit(1) after the message of line 133 or line 94.
Exit(why, code) ==
    /\ pc' = "done"
    /\ outcome' = why
    /\ exitCode' = {code}
    /\ exc' = exc

\* Orders in which a set may be iterated (line 85 iterates a set).
Orderings(S) ==
    {s \in [1..Cardinality(S) -> S] : \A i, j \in 1..Cardinality(S) : s[i] = s[j] => i = j}

\* Lines 84-89: one url per track, one future per url.
SubmitLyrics(tracks) ==
    /\ \E order \in Orderings(tracks) :
           futs' = [i \in 1..Len(order) |-> Future(0, order[i])]
    /\ batch' = "lyrics"
    /\ cursor' = 1
    /\ served' = <<>>
    /\ pc' = "lyrics"

\* Lines 136-143: the offsets of the supplemental requests.
Offsets_FromOne(count) == [i \in 1..(count \div PageDivisor) |-> OffsetStep * i]
Offsets_Ceiling(count) ==
    [i \in 1..((count + PageDivisor - 1) \div PageDivisor) |-> OffsetStep * (i - 1)]
Offsets(count) == [i \in 1..(count \div PageDivisor) |-> OffsetStep * (i - 1)]

\* --------------------------------------------------------------- actions
\* main() line 212 / 215 and Artist.__init__ up to the initial listing
\* request of _get_artist_recordings (lines 56-57, 124-129).
StartConstruct ==
    /\ pc = "main"
    /\ artist' = [artist EXCEPT ![cur].state = "constructing"]
    /\ initParams' = [initParams EXCEPT ![cur] = Append(@, [limit |-> Limit(args)])]
    /\ pc' = "await_initial"
    /\ UNCHANGED <<args, cur, data, batch, futs, cursor, recordings, served, pageReqs,
                   lyricReqs, outcome, exc, exitCode, printed>>

\* Lines 130-161 after the initial response arrived, and on the fixed-count
\* path lines 84-89 of _get_length_of_tracks as well.
InitialResponse ==
    /\ pc = "await_initial"
    /\ \E resp \in InitialResponses :
        /\ data' = resp
        /\ IF ~resp.json
           THEN /\ Crash("JSONDecodeError", "initial")
                /\ UNCHANGED <<artist, batch, futs, cursor, recordings, served>>
           ELSE IF IsNotFound(resp)
           THEN /\ Exit("notfound", ExitNotFound)
                /\ UNCHANGED <<artist, batch, futs, cursor, recordings, served>>
           ELSE IF GetAllTracks(args)
           THEN /\ futs' = [i \in 1..Len(Offsets(resp.count)) |->
                               Future(Offsets(resp.count)[i], "")]
                /\ batch' = "pages"
                /\ cursor' = 1
                /\ recordings' = <<>>
                /\ served' = <<>>
                /\ pc' = "pages"
                /\ UNCHANGED <<artist, outcome, exc, exitCode>>
           ELSE /\ artist' = [artist EXCEPT ![cur].tracks = TitleSet(FilterRecs(resp.recs))]
                /\ SubmitLyrics(TitleSet(FilterRecs(resp.recs)))
                /\ UNCHANGED <<recordings, outcome, exc, exitCode>>
    /\ UNCHANGED <<args, cur, initParams, pageReqs, lyricReqs, printed>>

\* A pool thread takes the oldest pending work item and sends its request.
CanStart(i) ==
    /\ i \in 1..Len(futs)
    /\ futs[i].state = "pending"
    /\ \A j \in 1..(i - 1) : futs[j].state # "pending"

\* _get_recording_data, lines 105-108: the request with limit 100 and offset.
StartPageRequest(i) ==
    /\ batch = "pages"
    /\ CanStart(i)
    /\ futs' = [futs EXCEPT ![i].state = "running"]
    /\ pageReqs' = [pageReqs EXCEPT ![cur] =
                       @ (+) SetToBag({[limit |-> PageSize, offset |-> futs[i].offset]})]
    /\ UNCHANGED <<args, pc, cur, artist, data, batch, cursor, recordings, served,
                   initParams, lyricReqs, outcome, exc, exitCode, printed>>

\* _get_recording_data, lines 109-110: the call ends and fills its future.
FinishPageRequest(i) ==
    /\ batch = "pages"
    /\ i \in 1..Len(futs)
    /\ futs[i].state = "running"
    /\ \E resp \in PageResponses :
        /\ served' = (i :> resp) @@ served
        /\ futs' = [futs EXCEPT ![i].state = "done", ![i].result = GetRecordingData(resp)]
    /\ UNCHANGED <<args, pc, cur, artist, data, batch, cursor, recordings,
                   initParams, pageReqs, lyricReqs, outcome, exc, exitCode, printed>>

\* _get_word_count_from_track, lines 73-74: the request for one track.
StartLyricRequest(i) ==
    /\ batch = "lyrics"
    /\ CanStart(i)
    /\ futs' = [futs EXCEPT ![i].state = "running"]
    /\ lyricReqs' = [lyricReqs EXCEPT ![cur] = @ (+) SetToBag({futs[i].title})]
    /\ UNCHANGED <<args, pc, cur, artist, data, batch, cursor, recordings, served,
                   initParams, pageReqs, outcome, exc, exitCode, printed>>

\* _get_word_count_from_track, lines 76-77: the call ends and fills its future.
FinishLyricRequest(i) ==
    /\ batch = "lyrics"
    /\ i \in 1..Len(futs)
    /\ futs[i].state = "running"
    /\ \E resp \in LyricResponses :
        /\ served' = (i :> resp) @@ served
        /\ futs' = [futs EXCEPT ![i].state = "done", ![i].result = GetWordCountFromTrack(resp)]
    /\ UNCHANGED <<args, pc, cur, artist, data, batch, cursor, recordings,
                   initParams, pageReqs, lyricReqs, outcome, exc, exitCode, printed>>

\* Future.result() inside executor.map's iterator returns once the call ended.
ResultReady_NoWait(i) == TRUE
ResultReady(i) == futs[i].state = "done"

\* Line 149: list(filter(None, recordings)) takes the results in submission
\* order, inside the with block.  A result that is an exception is raised:
\* the generator's finally cancels the futures not yet started.
NextPageResult ==
    /\ pc = "pages"
    /\ cursor <= Len(futs)
    /\ ResultReady(cursor)
    /\ IF futs[cursor].result.kind = "exc"
       THEN /\ futs' = [j \in 1..Len(futs) |->
                           IF j > cursor /\ futs[j].state = "pending"
                           THEN [futs[j] EXCEPT !.state = "cancelled"]
                           ELSE futs[j]]
            /\ exc' = [type |-> futs[cursor].result.exc, site |-> "page"]
            /\ pc' = "pages_unwind"
            /\ UNCHANGED <<cursor, recordings>>
       ELSE /\ recordings' = IF Truthy(futs[cursor].result)
                             THEN Append(recordings, futs[cursor].result.recs)
                             ELSE recordings
            /\ cursor' = cursor + 1
            /\ UNCHANGED <<futs, exc, pc>>
    /\ UNCHANGED <<args, cur, artist, data, batch, served, initParams, pageReqs,
                   lyricReqs, outcome, exitCode, printed>>

\* Line 145, leaving the with block on an exception: shutdown(wait=True) waits
\* for the running calls, then the exception leaves main().
PagesUnwind ==
    /\ pc = "pages_unwind"
    /\ \A i \in 1..Len(futs) : futs[i].state # "running"
    /\ pc' = "done"
    /\ outcome' = "exception"
    /\ exitCode' = {ExitUncaught}
    /\ UNCHANGED <<args, cur, artist, data, batch, futs, cursor, recordings, served,
                   initParams, pageReqs, lyricReqs, exc, printed>>

\* track_names of lines 151-154: the titles of every kept page, in order.
RECURSIVE Flatten(_)
Flatten(pages) == IF pages = <<>> THEN <<>> ELSE Head(pages) \o Flatten(Tail(pages))

\* Lines 151-161 once every result was taken, then lines 84-89.  dict['title']
\* on an entry that is no recording raises.
PagesMerge ==
    /\ pc = "pages"
    /\ cursor > Len(futs)
    /\ IF FalsyRec \in Elems(Flatten(recordings))
       THEN /\ Crash("TypeError", "merge")
            /\ UNCHANGED <<artist, batch, futs, cursor, served>>
       ELSE /\ artist' = [artist EXCEPT ![cur].tracks = TitleSet(Flatten(recordings))]
            /\ SubmitLyrics(TitleSet(Flatten(recordings)))
            /\ UNCHANGED <<outcome, exc, exitCode>>
    /\ UNCHANGED <<args, cur, data, recordings, initParams, pageReqs, lyricReqs, printed>>

\* The results executor.map yields, in submission order.
Results == [i \in 1..Len(futs) |-> futs[i].result]

IsExc(r) == r.kind = "exc"

FirstExc(rs) ==
    rs[CHOOSE i \in 1..Len(rs) : IsExc(rs[i]) /\ \A j \in 1..(i - 1) : ~IsExc(rs[j])]

\* Line 91: list(filter(None, values)).
Values_KeepNone(rs) == [i \in 1..Len(rs) |-> rs[i].n]
Values(rs) ==
    LET kept == SelectSeq(rs, Truthy) IN [i \in 1..Len(kept) |-> kept[i].n]

\* Lines 60-64 on a non-empty list: the attributes assigned before variance().
WithExtrema(a, values) ==
    [a EXCEPT !.values = values,
              !.average = Average(values),
              !.max = SeqMax(values),
              !.min = SeqMin(values),
              !.derived = {"average", "max", "min"}]

WithSpread(a) ==
    [a EXCEPT !.variance = Variance(a.values),
              !.derived = @ \cup {"variance", "standard_deviation"},
              !.state = "built"]

\* Lines 88-96 once the with block was left (every call ended), then lines
\* 58-64 of __init__.
LyricsJoin ==
    /\ pc = "lyrics"
    /\ \A i \in 1..Len(futs) : futs[i].state = "done"
    /\ IF \E i \in 1..Len(futs) : IsExc(Results[i])
       THEN /\ Crash(FirstExc(Results).exc, "lyric")
            /\ UNCHANGED <<artist, batch, futs, cursor, served>>
       ELSE IF Values(Results) = <<>>
       THEN /\ Exit("nodata", ExitNoData)
            /\ UNCHANGED <<artist, batch, futs, cursor, served>>
       ELSE IF VarianceRaises(Values(Results))
       THEN /\ Crash("StatisticsError", "stats")
            /\ artist' = [artist EXCEPT ![cur] = WithExtrema(@, Values(Results))]
            /\ UNCHANGED <<batch, futs, cursor, served>>
       ELSE /\ artist' = [artist EXCEPT ![cur] = WithSpread(WithExtrema(@, Values(Results)))]
            /\ batch' = "none"
            /\ futs' = <<>>
            /\ cursor' = 1
            /\ served' = <<>>
            /\ pc' = "built"
            /\ UNCHANGED <<outcome, exc, exitCode>>
    /\ UNCHANGED <<args, cur, data, recordings, initParams, pageReqs, lyricReqs, printed>>

\* main() line 214-215: with --compare the second Artist is constructed next.
BuildSecond_Overlapping ==
    /\ pc \in {"built", "lyrics"}
    /\ cur = 1
    /\ args.compare
    /\ cur' = 2
    /\ data' = NoData
    /\ recordings' = <<>>
    /\ pc' = "main"
    /\ UNCHANGED <<args, artist, batch, futs, cursor, served,
                   initParams, pageReqs, lyricReqs, outcome, exc, exitCode, printed>>
BuildSecond ==
    /\ pc = "built"
    /\ cur = 1
    /\ args.compare
    /\ cur' = 2
    /\ data' = NoData
    /\ recordings' = <<>>
    /\ pc' = "main"
    /\ UNCHANGED <<args, artist, batch, futs, cursor, served,
                   initParams, pageReqs, lyricReqs, outcome, exc, exitCode, printed>>

\* main() lines 214-217 with every Artist built, then the normal exit.
PrintResult ==
    /\ pc = "built"
    /\ cur = 2 \/ ~args.compare
    /\ printed' = IF args.compare THEN "difference" ELSE "details"
    /\ outcome' = "ok"
    /\ exitCode' = {ExitSuccess}
    /\ pc' = "done"
    /\ UNCHANGED <<args, cur, artist, data, batch, futs, cursor, recordings, served,
                   initParams, pageReqs, lyricReqs, exc>>

Next ==
    \/ StartConstruct
    \/ InitialResponse
    \/ \E i \in 1..Len(futs) : StartPageRequest(i)
    \/ \E i \in 1..Len(futs) : FinishPageRequest(i)
    \/ \E i \in 1..Len(futs) : StartLyricRequest(i)
    \/ \E i \in 1..Len(futs) : FinishLyricRequest(i)
    \/ NextPageResult
    \/ PagesUnwind
    \/ PagesMerge
    \/ LyricsJoin
    \/ BuildSecond
    \/ PrintResult

Spec == Init /\ [][Next]_vars

\* ================================================================ claims

\* C1: a lyric fetch or a supplemental page that times out, answers with a
\* non-200 status or carries a malformed body is dropped: its failure is never
\* the exception that ends the build, and no unit is requested a second time.
C1_TransientFailureNeverPropagated ==
    /\ exc.site \notin {"page", "lyric", "merge"}
    /\ \A a \in ArtistIds :
          /\ \A r \in BagToSet(pageReqs[a]) : CopiesIn(r, pageReqs[a]) = 1
          /\ \A t \in BagToSet(lyricReqs[a]) : CopiesIn(t, lyricReqs[a]) = 1

\* C2: once the initial response of a build reports a total count of zero,
\* the process has exited with code 1 as "not found", and that build never
\* sent a supplemental page request or a lyric request, derived no statistic
\* and printed no result block.
C2_ZeroCountEndsNotFound ==
    (data.json /\ data.count = 0) =>
        /\ pc = "done"
        /\ outcome = "notfound"
        /\ exitCode = {1}
        /\ pageReqs[cur] = EmptyBag
        /\ lyricReqs[cur] = EmptyBag
        /\ futs = <<>>
        /\ artist[cur].derived = {}
        /\ artist[cur].state # "built"
        /\ printed = "none"

C2_Witness ==
    /\ data.json /\ data.count = 0 /\ data.recs # <<>>
    /\ outcome = "notfound"
    /\ args.all

\* C3: when the lyric batch is joined and every fetch returned None, the
\* build ends as "no data" with exit code 1 (not as "not found"); and in every
\* state an Artist with a derived statistic has a non-empty values list.
C3_AllAbsentIsNoData ==
    /\ [](\A a \in ArtistIds : artist[a].derived # {} => Len(artist[a].values) > 0)
    /\ [](outcome = "nodata" => exitCode = {1} /\ data.json /\ data.count # 0)
    /\ [][(/\ pc = "lyrics"
           /\ pc' # "lyrics"
           /\ \A i \in 1..Len(futs) : futs[i].result.kind = "none")
          => (outcome' = "nodata" /\ exitCode' = {1} /\ artist'[cur].derived = {})]_vars

C3_Witness ==
    /\ outcome = "nodata"
    /\ batch = "lyrics"
    /\ Len(futs) = 2
    /\ \A i \in 1..Len(futs) : futs[i].state = "done" /\ futs[i].result.kind = "none"

C5_InitialPageSize ==
    \A a \in ArtistIds : \A k \in 1..Len(initParams[a]) :
        /\ initParams[a][k].limit.tag = "int"
        /\ initParams[a][k].limit.n <= 100
        /\ initParams[a][k].limit.n =
              (IF args.all THEN 100
               ELSE IF args.limit <= 100 THEN args.limit ELSE 100)

\* C6: a build whose values list holds exactly one word count w completes,
\* with average = w, min = w and max = w, and does not abort.
C6_SingleSampleCompletes ==
    \A a \in ArtistIds :
        (artist[a].derived # {} /\ Len(artist[a].values) = 1) =>
            /\ outcome # "exception"
            /\ artist[a].state = "built"
            /\ artist[a].average = 100 * artist[a].values[1]
            /\ artist[a].min = artist[a].values[1]
            /\ artist[a].max = artist[a].values[1]

\* C7: for --limit n with n <= 100 and an initial page of at most n entries,
\* the build sends exactly one listing request and no supplemental one; the
\* track set has at most n titles, every one the title of a recording of that
\* page, and no title is fetched twice.
C7_FixedCountTrackSet ==
    (/\ ~args.all /\ args.limit <= 100
     /\ data.json /\ data.count # 0
     /\ Len(data.recs) <= args.limit) =>
        /\ Len(initParams[cur]) = 1
        /\ pageReqs[cur] = EmptyBag
        /\ Cardinality(artist[cur].tracks) <= args.limit
        /\ artist[cur].tracks \subseteq (Elems(data.recs) \ {FalsyRec})
        /\ batch = "lyrics" =>
              /\ {futs[i].title : i \in 1..Len(futs)} = artist[cur].tracks
              /\ \A i, j \in 1..Len(futs) : futs[i].title = futs[j].title => i = j

C7_Witness ==
    /\ ~args.all /\ args.limit = 2
    /\ data.json /\ data.recs = <<"Bohemian Rhapsody", "Bohemian Rhapsody">>
    /\ batch = "lyrics"
    /\ Len(futs) = 1
    /\ futs[1].state = "done"

\* C8: a worker fills only the slot of its own unit; the results of a batch
\* are merged only when every call of the batch has ended; the merged track
\* set and the multiset of word counts are determined by the responses the
\* units received, whatever the order they ended in; and no lyric request is
\* sent before the listing is complete.
C8_JoinThenMerge ==
    /\ [](\A i \in 1..Len(futs) :
            IF futs[i].state = "done"
            THEN /\ i \in DOMAIN served
                 /\ futs[i].result = (IF batch = "pages"
                                      THEN GetRecordingData(served[i])
                                      ELSE GetWordCountFromTrack(served[i]))
            ELSE futs[i].result = NoResult)
    /\ [](pc \in {"main", "await_initial", "pages", "pages_unwind"}
            => lyricReqs[cur] = EmptyBag)
    /\ [][(pc = "pages" /\ pc' = "lyrics") =>
            /\ \A i \in 1..Len(futs) : futs[i].state = "done"
            /\ artist'[cur].tracks =
                  UNION {Elems(served[i].recs) : i \in DOMAIN served}]_vars
    /\ [][(pc = "lyrics" /\ pc' # "lyrics") =>
            \A i \in 1..Len(futs) : futs[i].state = "done"]_vars
    /\ [][(pc = "lyrics" /\ pc' = "built") =>
            LET vals == artist'[cur].values
                cnt(i) == GetWordCountFromTrack(served[i])
            IN \A n \in Elems(vals) \cup {cnt(i).n : i \in DOMAIN served} :
                   Cardinality({k \in 1..Len(vals) : vals[k] = n})
                     = Cardinality({i \in DOMAIN served :
                                       cnt(i).kind = "count" /\ cnt(i).n = n})]_vars

C8_Witness ==
    /\ args.all
    /\ pc = "lyrics"
    /\ Len(recordings) = 2
    /\ Cardinality(artist[cur].tracks) = 2
    /\ futs[1].state = "running"
    /\ futs[2].state = "done"

C10_CompareIsSequential ==
    /\ (\/ initParams[2] # <<>>
        \/ pageReqs[2] # EmptyBag
        \/ lyricReqs[2] # EmptyBag
        \/ cur = 2)
          => /\ args.compare
             /\ artist[1].state = "built"
             /\ artist[1].derived =
                   {"average", "max", "min", "variance", "standard_deviation"}
    /\ outcome \in {"notfound", "nodata"} => (exitCode = {1} /\ printed = "none")
    /\ printed # "none" =>
          /\ outcome = "ok"
          /\ \A a \in ArtistIds : (a = 1 \/ args.compare) => artist[a].state = "built"
          /\ printed = (IF args.compare THEN "difference" ELSE "details")

C10_Witness ==
    /\ args.compare
    /\ cur = 2
    /\ lyricReqs[2] # EmptyBag
    /\ outcome = "nodata"
    /\ printed = "none"

====
